---- MODULE Spec2Model ----
(***************************************************************************)
(* Model of the stuweleipzig mensa crawler (src/src/main.rs): the prefetch *)
(* orchestration with its per-day tasks, the two-file cache per request    *)
(* key, the HTML extraction, and the "heute/morgen/uebermorgen" read path. *)
(***************************************************************************)
EXTENDS Integers, Sequences, FiniteSets, TLC

(* ------------------------------ bounds --------------------------------- *)
\* Program runs (prefetch or message runs) started in one behaviour.
MaxRuns == 2
\* "Today" ranges over the day numbers 4..MaxToday of the calendar window
\* below (day 0 is Monday 2024-02-26, so day 4 is a Friday).
MaxToday == 4
\* In the date specification "today" ranges over 0..MaxDateToday: every
\* weekday, three weeks.
MaxDateToday == 20
\* Direct child elements of a section.meals container in the extraction
\* specification.
MaxChildren == 4

(* --------------------------- program constants ------------------------- *)
loc == 140

\* a file that does not exist, a file just created (no bytes yet), the raw
\* file holding a page, the .json file holding a JSON text
NoFile == [kind |-> "nofile"]
EmptyFile == [kind |-> "empty"]
HtmlFile(page) == [html |-> page]
JsonFile(text) == [json |-> text]

\* an unset local
None == [kind |-> "none"]

(* ------------------------------ calendar ------------------------------- *)
\* chrono's Weekday of a day number: 0 = Mon .. 5 = Sat, 6 = Sun.
Weekday(n) == n % 7

\* (year, month, day) of a day number; the window spans the end of
\* February 2024 (a leap year) and the start of March 2024.
YearOf(n) == 2024
MonthOf(n) == IF n <= 3 THEN 2 ELSE 3
DayOf(n) == IF n <= 3 THEN 26 + n ELSE n - 3

\* format!("{:04}-{:02}-{:02}", year, month, day): the text is modelled by
\* its three numeric fields in the order they are printed.
build_req_date_string(n) == <<YearOf(n), MonthOf(n), DayOf(n)>>

\* format!("location={}&date={}", loc, req_date_formatted)
UrlArgs(n) == <<"location=", loc, "&date=", build_req_date_string(n)>>

\* "cached_data/" + url_args and "cached_data/{}.json"
RawFileName(args) == <<"cached_data/", args>>
JsonFileName(args) == <<"cached_data/", args, ".json">>

WeekdayName(n) ==
  CASE Weekday(n) = 0 -> "Montag" [] Weekday(n) = 1 -> "Dienstag"
    [] Weekday(n) = 2 -> "Mittwoch" [] Weekday(n) = 3 -> "Donnerstag"
    [] Weekday(n) = 4 -> "Freitag" [] Weekday(n) = 5 -> "Samstag"
    [] OTHER -> "Sonntag"

\* The text of the selected <option>: "<weekday>, dd.mm.yyyy", modelled by
\* its fields in printed order.
EchoText(n) == <<WeekdayName(n), DayOf(n), MonthOf(n), YearOf(n)>>

(* ------------------------------- pages --------------------------------- *)
Title(label) == [classes |-> {"title-prim"}, text |-> label, children |-> <<>>]
Junk == [classes |-> {"title-sec"}, text |-> "Beilagen", children |-> <<>>]
Block(dishes) == [classes |-> {"accordion", "u-block"}, text |-> "", children |-> dishes]
Dish(name, extras, lines) == [h4 |-> <<name>>, li |-> extras, p |-> <<lines>>]

\* A page of the server: HTTP status, the selected options of
\* select#edit-date (their inner text), the section.meals containers (each a
\* sequence of direct child elements).
MenuA(n) ==
  [status |-> 200, selected |-> <<EchoText(n)>>,
   sections |-> << <<Title("Fleischgericht"), Junk,
                     Block(<<Dish("Schnitzel", <<"Pommes", "Salat">>,
                                  <<<<"Preise">>, <<" ", "3,50", " ">>>>)>>)>> >>]

MenuB(n) ==
  [status |-> 200, selected |-> <<EchoText(n)>>,
   sections |-> << <<Title("Veganes Gericht"),
                     Block(<<Dish("Linsensuppe", <<>>, <<<<"2,10">>>>)>>)>> >>]

\* The server has no plan for day n and silently shows another day.
Substituted(n) == MenuA(n - 1)

\* Body of a non-success response: no date control, no menu container.
ErrorPage == [status |-> 503, selected |-> <<>>, sections |-> <<>>]

ServerPages(n) == {MenuA(n), MenuB(n), Substituted(n), ErrorPage}

\* the dishes of the fixtures
DishA == Dish("Schnitzel", <<"Pommes", "Salat">>, <<<<"Preise">>, <<" ", "3,50", " ">>>>)
DishB == Dish("Linsensuppe", <<>>, <<<<"2,10">>>>)
\* a dish element without the h4 of its name
NamelessDish == [h4 |-> <<>>, li |-> <<>>, p |-> <<<<"1,00">>>>]
\* an element with class accordion but without class u-block
HalfBlock == [classes |-> {"accordion"}, text |-> "", children |-> <<DishB>>]

\* the direct child elements a container is built from
Elements ==
  {Title("Fleischgericht"), Title("Veganes Gericht"), Junk, HalfBlock,
   Block(<<>>), Block(<<DishA, DishB>>), Block(<<NamelessDish>>)}

\* the section.meals containers: up to MaxChildren direct children
Containers == UNION {[1..n -> Elements] : n \in 0..MaxChildren}

(* ----------------------------- extraction ------------------------------ *)
RECURSIVE TrimStart(_)
TrimStart(s) == IF s # <<>> /\ Head(s) = " " THEN TrimStart(Tail(s)) ELSE s

RECURSIVE TrimEnd(_)
TrimEnd(s) ==
  IF s # <<>> /\ s[Len(s)] = " " THEN TrimEnd(SubSeq(s, 1, Len(s) - 1)) ELSE s

\* str::trim
Trim(s) == TrimEnd(TrimStart(s))

\* a price that is the last line as it stands
PriceUntrimmed(lines) == lines[Len(lines)]

\* .split("\n").last().unwrap().trim() over the lines of the paragraph
PriceOf(lines) == Trim(lines[Len(lines)])

\* a sibling step that stays on the element it is on
SameElement(ch, j) == j

\* has_class("accordion") && has_class("u-block")
IsBlock(e) == {"accordion", "u-block"} \subseteq e.classes

\* next_sibling_element() of the child at index j: its index, 0 for None
NextSiblingElement(ch, j) == IF j < Len(ch) THEN j + 1 ELSE 0

\* first index >= j of an element with both classes accordion and u-block;
\* 0 when the sibling chain ends first (next_sibling_element() is None).
RECURSIVE FindBlock(_, _)
FindBlock(ch, j) ==
  IF j > Len(ch) THEN 0
  ELSE IF {"accordion", "u-block"} \subseteq ch[j].classes THEN j
  ELSE FindBlock(ch, j + 1)

\* a dish element whose h4 and p selections are both non-empty
DishOk(d) == Len(d.h4) > 0 /\ Len(d.p) > 0

SingleMeal(d) ==
  [name |-> d.h4[1], additional_ingredients |-> d.li, price |-> PriceOf(d.p[1])]

\* indices of the direct children that carry class title-prim
TitleIdx(ch) == {i \in 1..Len(ch) : "title-prim" \in ch[i].classes}

\* a title whose block is found and whose dishes all have name and price
GroupOk(ch, i) ==
  LET b == FindBlock(ch, i + 1) IN
    /\ b # 0
    /\ \A k \in 1..Len(ch[b].children) : DishOk(ch[b].children[k])

MealGroupOf(ch, i) ==
  LET b == FindBlock(ch, i + 1) IN
    [meal_type |-> ch[i].text,
     sub_meals |-> [k \in 1..Len(ch[b].children) |-> SingleMeal(ch[b].children[k])]]

\* the groups of the titles at indices >= i, in document order
RECURSIVE GroupsFrom(_, _)
GroupsFrom(ch, i) ==
  IF i > Len(ch) THEN <<>>
  ELSE IF i \in TitleIdx(ch) THEN <<MealGroupOf(ch, i)>> \o GroupsFrom(ch, i + 1)
  ELSE GroupsFrom(ch, i + 1)

\* the selected date text reformatted as year, month, day (taken from the
\* end of the text)
ReceivedDateFormatted(txt) == <<txt[Len(txt)], txt[Len(txt) - 1], txt[Len(txt) - 2]>>

\* an extraction that does not compare the date the page shows with the
\* requested one
parse_without_date_check(page, req) ==
  IF Len(page.selected) = 0 \/ Len(page.sections) = 0 THEN [kind |-> "panic"]
  ELSE LET ch == page.sections[1] IN
    IF \E i \in TitleIdx(ch) : ~GroupOk(ch, i) THEN [kind |-> "panic"]
    ELSE [kind |-> "ok",
          day_meals |-> [date |-> page.selected[1], meal_groups |-> GroupsFrom(ch, 1)]]

\* parse_data_from_html: "panic" for a failed unwrap, "exit" for the
\* process::exit(0) on a date mismatch, otherwise the DayMeals value.
parse_data_from_html(page, req) ==
  IF Len(page.selected) = 0 THEN [kind |-> "panic"]
  ELSE IF ReceivedDateFormatted(page.selected[1]) # req THEN [kind |-> "exit"]
  ELSE IF Len(page.sections) = 0 THEN [kind |-> "panic"]
  ELSE LET ch == page.sections[1] IN
    IF \E i \in TitleIdx(ch) : ~GroupOk(ch, i) THEN [kind |-> "panic"]
    ELSE [kind |-> "ok",
          day_meals |-> [date |-> page.selected[1], meal_groups |-> GroupsFrom(ch, 1)]]

(* ---------------------------- serialization ---------------------------- *)
\* serde_json::to_string: the JSON text, modelled as nested arrays of the
\* field values in declaration order.
MealJson(m) == <<m.name, m.additional_ingredients, m.price>>
GroupJson(g) == <<g.meal_type, [k \in 1..Len(g.sub_meals) |-> MealJson(g.sub_meals[k])]>>
ToJson(dm) == <<dm.date, [k \in 1..Len(dm.meal_groups) |-> GroupJson(dm.meal_groups[k])]>>

\* serde_json::from_str
MealFromJson(j) == [name |-> j[1], additional_ingredients |-> j[2], price |-> j[3]]
GroupFromJson(j) ==
  [meal_type |-> j[1], sub_meals |-> [k \in 1..Len(j[2]) |-> MealFromJson(j[2][k])]]
FromJson(j) ==
  [date |-> j[1], meal_groups |-> [k \in 1..Len(j[2]) |-> GroupFromJson(j[2][k])]]

(* ------------------------------- dates --------------------------------- *)
\* a prefetch that pushes today and the two days after it on every weekday
PrefetchDaysPlain(t) == <<t, t + 1, t + 2>>

\* a resolver that never raises the date
DateRaisedNever(t, mode) == 0

\* the days prefetch pushes, by today's weekday (match in prefetch)
PrefetchDays(t) ==
  CASE Weekday(t) = 3 -> <<t, t + 1, t + 4>>
    [] Weekday(t) = 4 -> <<t, t + 3>>
    [] Weekday(t) = 5 -> <<t + 2>>
    [] Weekday(t) = 6 -> <<t + 1, t + 2>>
    [] OTHER -> <<t, t + 1, t + 2>>

\* build_heute_msg: today + mode, raised past a weekend
DateRaisedByDays(t, mode) ==
  CASE Weekday(t + mode) = 5 -> 2
    [] Weekday(t + mode) = 6 -> 1
    [] OTHER -> 0

RequestedDate(t, mode) == t + mode + DateRaisedByDays(t, mode)

(* ------------------------------- state --------------------------------- *)
VARIABLES
  today,    \* chrono::Local::now(), as a day number
  files,    \* the directory cached_data/: file name -> content
  budget,   \* program runs that may still be started
  mainPc,   \* the prefetch process: idle, join, returned, aborted, exited
  joinIdx,  \* index of the handle the join loop awaits
  task,     \* the spawned cache_day_data tasks
  gm,       \* the message run (build_heute_msg -> get_meals)
  prev,     \* per day: the last cache_day_data that ran to its end (history)
  ex        \* the container loop of parse_data_from_html, step by step

vars == <<today, files, budget, mainPc, joinIdx, task, gm, prev, ex>>

Todays == 4..MaxToday
\* the days a run started on one of Todays can request
Days == 4..(MaxToday + 4)
Tasks == 1..3
Modes == {0, 1, 2}
FileNames ==
  {RawFileName(UrlArgs(n)) : n \in Days} \cup {JsonFileName(UrlArgs(n)) : n \in Days}

\* pc: where the task is; html: html_text; meals: day_meals;
\* saved: save_cache_to_file was entered; extr: calls of parse_data_from_html;
\* raw0, json0: the two files of the task's key when it was spawned;
\* last: the previous cache_day_data of the same key, if it ran to its end
NoTask ==
  [pc |-> "unused", day |-> 0, html |-> None, meals |-> None, saved |-> FALSE,
   extr |-> 0, outcome |-> "none", raw0 |-> NoFile, json0 |-> NoFile, last |-> None]

\* pc: where the message run is; day: requested_date; raised:
\* date_raised_by_days; page: the page get_meals fetched; result: day_meals;
\* miss: get_meals found no cached file; warm: the program run before this
\* one was a prefetch that returned (history); raw0, json0: the two files of
\* the requested key when the run started (history)
NoGm ==
  [pc |-> "idle", mode |-> 0, day |-> 0, raised |-> 0, page |-> None,
   result |-> None, miss |-> FALSE, warm |-> FALSE, raw0 |-> NoFile,
   json0 |-> NoFile]

\* ch: the direct children of the container; pc: where the loop is;
\* i: index of child; j: index of next_sibling; groups: v_meal_groups;
\* blocks: per pushed group, the index of the element its dishes were
\* taken from (history)
NoEx == [ch |-> <<>>, pc |-> "unused", i |-> 0, j |-> 0, groups |-> <<>>, blocks |-> <<>>]

SpawnedTask(n) ==
  [NoTask EXCEPT !.pc = "fetch", !.day = n,
                 !.raw0 = files[RawFileName(UrlArgs(n))],
                 !.json0 = files[JsonFileName(UrlArgs(n))],
                 !.last = prev[n]]

InitCache ==
  /\ files = [f \in FileNames |-> NoFile]
  /\ mainPc = "idle"
  /\ joinIdx = 0
  /\ task = [u \in Tasks |-> NoTask]
  /\ gm = NoGm
  /\ prev = [n \in Days |-> None]

Init ==
  /\ today \in Todays
  /\ budget = MaxRuns
  /\ InitCache
  /\ ex = NoEx

\* one more program run than in Init
InitLong ==
  /\ today \in Todays
  /\ budget = MaxRuns + 1
  /\ InitCache
  /\ ex = NoEx

\* no program run is in progress
NoProcess ==
  /\ mainPc \in {"idle", "returned", "aborted", "exited"}
  /\ gm.pc \in {"idle", "returned", "panicked", "exited"}

Live(u) ==
  task[u].pc \in {"fetch", "writeRaw", "getMeals", "writeJson"}

\* the tasks as the end of the process leaves them: the one that ended it
\* gets record r, every other task still running is dropped
ProcessEnds(u, r) ==
  [v \in Tasks |-> IF v = u THEN r
                   ELSE IF Live(v) THEN [task[v] EXCEPT !.pc = "killed"]
                   ELSE task[v]]

(* ------------------------------ prefetch ------------------------------- *)
\* prefetch: push the days, spawn one cache_day_data per day
StartPrefetch ==
  /\ NoProcess
  /\ budget > 0
  /\ budget' = budget - 1
  /\ LET days == PrefetchDays(today) IN
       /\ task' = [u \in Tasks |->
                     IF u <= Len(days) THEN SpawnedTask(days[u]) ELSE NoTask]
       /\ prev' = [n \in Days |->
                     IF \E u \in 1..Len(days) : days[u] = n THEN None ELSE prev[n]]
  /\ mainPc' = "join"
  /\ joinIdx' = 1
  /\ gm' = NoGm
  /\ UNCHANGED <<ex, today, files>>

NumHandles == Cardinality({u \in Tasks : task[u].pc # "unused"})

\* a join loop that does not wait for the task: the fault C5 rules out
HandleFinishedNoWait(u) == TRUE

\* handle.await is ready with Ok
HandleFinished(u) == task[u].pc = "done"

\* handle.await is ready with a JoinError
HandlePanicked(u) == task[u].pc = "panicked"

\* for handle in handles { handle.await ... }: the awaited task finished
JoinNext ==
  /\ mainPc = "join"
  /\ joinIdx <= NumHandles
  /\ HandleFinished(joinIdx)
  /\ joinIdx' = joinIdx + 1
  /\ UNCHANGED <<ex, today, files, budget, mainPc, task, gm, prev>>

\* .expect("Panic in task"): the awaited task panicked, prefetch panics and
\* the runtime drops the tasks still running
JoinPanic ==
  /\ mainPc = "join"
  /\ joinIdx <= NumHandles
  /\ HandlePanicked(joinIdx)
  /\ mainPc' = "aborted"
  /\ task' = ProcessEnds(joinIdx, task[joinIdx])
  /\ UNCHANGED <<ex, today, files, budget, joinIdx, gm, prev>>

\* prefetch().await returns; main calls exit(0)
PrefetchReturn ==
  /\ mainPc = "join"
  /\ joinIdx > NumHandles
  /\ mainPc' = "returned"
  /\ UNCHANGED <<ex, today, files, budget, joinIdx, task, gm, prev>>

(* --------------------------- cache_day_data ---------------------------- *)
TaskAt(u, where) == mainPc = "join" /\ task[u].pc = where

Args(u) == UrlArgs(task[u].day)

ReqDate(u) == build_req_date_string(task[u].day)

\* what the task leaves for the next cache_day_data of its key
Completed(u) == [html |-> task[u].html, extr |-> task[u].extr, saved |-> TRUE]

\* reqwest::get(..).await.expect("URL request failed"): transport failure
TaskFetchFail(u) ==
  /\ TaskAt(u, "fetch")
  /\ task' = [task EXCEPT ![u].pc = "panicked", ![u].outcome = "FetchError"]
  /\ UNCHANGED <<ex, today, files, budget, mainPc, joinIdx, gm, prev>>

\* File::open of the raw file succeeds and contents == html_text
RawUnchanged(args, html_text) == files[RawFileName(args)] = HtmlFile(html_text)

\* reqwest_data returns the body of whatever response arrived; the raw file
\* holds the same text: the task ends without saving
TaskFetchSame(u) ==
  /\ TaskAt(u, "fetch")
  /\ \E page \in ServerPages(task[u].day) :
       /\ RawUnchanged(Args(u), page)
       /\ task' = [task EXCEPT ![u].pc = "done", ![u].html = page,
                               ![u].outcome = "ok"]
       /\ prev' = [prev EXCEPT ![task[u].day] = [html |-> page, extr |-> 0, saved |-> FALSE]]
  /\ UNCHANGED <<ex, today, files, budget, mainPc, joinIdx, gm>>

(* ------------------------- save_cache_to_file -------------------------- *)
\* the raw file is missing or differs: save_cache_to_file is entered and
\* File::create makes the raw file anew (empty)
TaskFetchDiffer(u) ==
  /\ TaskAt(u, "fetch")
  /\ \E page \in ServerPages(task[u].day) :
       /\ ~RawUnchanged(Args(u), page)
       /\ task' = [task EXCEPT ![u].pc = "writeRaw", ![u].html = page,
                               ![u].saved = TRUE]
  /\ files' = [files EXCEPT ![RawFileName(Args(u))] = EmptyFile]
  /\ UNCHANGED <<ex, today, budget, mainPc, joinIdx, gm, prev>>

\* html_file.write_all(html_text)
TaskWriteRaw(u) ==
  /\ TaskAt(u, "writeRaw")
  /\ files' = [files EXCEPT ![RawFileName(Args(u))] = HtmlFile(task[u].html)]
  /\ task' = [task EXCEPT ![u].pc = "getMeals"]
  /\ UNCHANGED <<ex, today, budget, mainPc, joinIdx, gm, prev>>

\* get_meals: File::open of the .json file succeeds
JsonCacheHit(args) == files[JsonFileName(args)] # NoFile

\* get_meals, cached file exists: the stored record is returned, and
\* File::create makes the .json file anew (empty)
TaskGetMealsHit(u) ==
  /\ TaskAt(u, "getMeals")
  /\ JsonCacheHit(Args(u))
  /\ files[JsonFileName(Args(u))] # EmptyFile
  /\ task' = [task EXCEPT ![u].pc = "writeJson",
                          ![u].meals = FromJson(files[JsonFileName(Args(u))].json)]
  /\ files' = [files EXCEPT ![JsonFileName(Args(u))] = EmptyFile]
  /\ UNCHANGED <<ex, today, budget, mainPc, joinIdx, gm, prev>>

\* get_meals, cached file exists but holds no JSON: from_str(..).unwrap()
TaskGetMealsCorrupt(u) ==
  /\ TaskAt(u, "getMeals")
  /\ JsonCacheHit(Args(u))
  /\ files[JsonFileName(Args(u))] = EmptyFile
  /\ task' = [task EXCEPT ![u].pc = "panicked", ![u].outcome = "JsonError"]
  /\ UNCHANGED <<ex, today, files, budget, mainPc, joinIdx, gm, prev>>

\* get_meals, no cached file: the page is requested again; transport failure
TaskRefetchFail(u) ==
  /\ TaskAt(u, "getMeals")
  /\ ~JsonCacheHit(Args(u))
  /\ task' = [task EXCEPT ![u].pc = "panicked", ![u].outcome = "FetchError"]
  /\ UNCHANGED <<ex, today, files, budget, mainPc, joinIdx, gm, prev>>

\* get_meals, no cached file: the second response parses, and File::create
\* makes the .json file (empty)
TaskRefetchParsed(u) ==
  /\ TaskAt(u, "getMeals")
  /\ ~JsonCacheHit(Args(u))
  /\ \E page \in ServerPages(task[u].day) :
       LET r == parse_data_from_html(page, ReqDate(u)) IN
         /\ r.kind = "ok"
         /\ task' = [task EXCEPT ![u].pc = "writeJson", ![u].meals = r.day_meals,
                                 ![u].extr = task[u].extr + 1]
  /\ files' = [files EXCEPT ![JsonFileName(Args(u))] = EmptyFile]
  /\ UNCHANGED <<ex, today, budget, mainPc, joinIdx, gm, prev>>

\* get_meals, no cached file: the second response shows another date and
\* exit(0) ends the whole process
TaskRefetchNoPlan(u) ==
  /\ TaskAt(u, "getMeals")
  /\ ~JsonCacheHit(Args(u))
  /\ \E page \in ServerPages(task[u].day) :
       parse_data_from_html(page, ReqDate(u)).kind = "exit"
  /\ task' = ProcessEnds(u, [task[u] EXCEPT !.pc = "exited",
                                            !.outcome = "NoMenuPublished",
                                            !.extr = task[u].extr + 1])
  /\ mainPc' = "exited"
  /\ UNCHANGED <<ex, today, files, budget, joinIdx, gm, prev>>

\* get_meals, no cached file: an unwrap inside parse_data_from_html fails
\* and the task panics
TaskRefetchFault(u) ==
  /\ TaskAt(u, "getMeals")
  /\ ~JsonCacheHit(Args(u))
  /\ \E page \in ServerPages(task[u].day) :
       parse_data_from_html(page, ReqDate(u)).kind = "panic"
  /\ task' = [task EXCEPT ![u].pc = "panicked", ![u].outcome = "ExtractionFault",
                          ![u].extr = task[u].extr + 1]
  /\ UNCHANGED <<ex, today, files, budget, mainPc, joinIdx, gm, prev>>

\* json_file.write_all(serde_json::to_string(&day_meals)); the task ends
TaskWriteJson(u) ==
  /\ TaskAt(u, "writeJson")
  /\ files' = [files EXCEPT ![JsonFileName(Args(u))] = JsonFile(ToJson(task[u].meals))]
  /\ task' = [task EXCEPT ![u].pc = "done", ![u].outcome = "ok"]
  /\ prev' = [prev EXCEPT ![task[u].day] = Completed(u)]
  /\ UNCHANGED <<ex, today, budget, mainPc, joinIdx, gm>>

(* ------------------- build_heute_msg -> get_meals ---------------------- *)
\* main with heute / morgen / uebermorgen: the requested date is resolved
MsgStart(mode) ==
  /\ NoProcess
  /\ budget > 0
  /\ budget' = budget - 1
  /\ gm' = [NoGm EXCEPT !.pc = "open", !.mode = mode,
                        !.day = RequestedDate(today, mode),
                        !.raised = DateRaisedByDays(today, mode),
                        !.warm = (mainPc = "returned"),
                        !.raw0 = files[RawFileName(UrlArgs(RequestedDate(today, mode)))],
                        !.json0 = files[JsonFileName(UrlArgs(RequestedDate(today, mode)))]]
  /\ mainPc' = "idle"
  /\ joinIdx' = 0
  /\ task' = [u \in Tasks |-> NoTask]
  /\ UNCHANGED <<ex, today, files, prev>>

\* get_meals, cached file exists
MsgCacheHit ==
  /\ gm.pc = "open"
  /\ JsonCacheHit(UrlArgs(gm.day))
  /\ files[JsonFileName(UrlArgs(gm.day))] # EmptyFile
  /\ gm' = [gm EXCEPT !.pc = "returned",
                      !.result = FromJson(files[JsonFileName(UrlArgs(gm.day))].json)]
  /\ UNCHANGED <<ex, today, files, budget, mainPc, joinIdx, task, prev>>

MsgCacheCorrupt ==
  /\ gm.pc = "open"
  /\ JsonCacheHit(UrlArgs(gm.day))
  /\ files[JsonFileName(UrlArgs(gm.day))] = EmptyFile
  /\ gm' = [gm EXCEPT !.pc = "panicked"]
  /\ UNCHANGED <<ex, today, files, budget, mainPc, joinIdx, task, prev>>

\* get_meals, no cached file: transport failure
MsgFetchFail ==
  /\ gm.pc = "open"
  /\ ~JsonCacheHit(UrlArgs(gm.day))
  /\ gm' = [gm EXCEPT !.pc = "panicked", !.miss = TRUE]
  /\ UNCHANGED <<ex, today, files, budget, mainPc, joinIdx, task, prev>>

\* get_meals, no cached file: the response is parsed and returned; nothing
\* is saved
MsgFetch ==
  /\ gm.pc = "open"
  /\ ~JsonCacheHit(UrlArgs(gm.day))
  /\ \E page \in ServerPages(gm.day) :
       LET r == parse_data_from_html(page, build_req_date_string(gm.day)) IN
         gm' = [gm EXCEPT !.page = page, !.miss = TRUE,
                          !.pc = CASE r.kind = "ok" -> "returned"
                                   [] r.kind = "exit" -> "exited"
                                   [] OTHER -> "panicked",
                          !.result = IF r.kind = "ok" THEN r.day_meals ELSE None]
  /\ UNCHANGED <<ex, today, files, budget, mainPc, joinIdx, task, prev>>

(* ---------------------------- specification ---------------------------- *)
Next ==
  \/ StartPrefetch
  \/ JoinNext
  \/ JoinPanic
  \/ PrefetchReturn
  \/ \E u \in Tasks : TaskFetchFail(u)
  \/ \E u \in Tasks : TaskFetchSame(u)
  \/ \E u \in Tasks : TaskFetchDiffer(u)
  \/ \E u \in Tasks : TaskWriteRaw(u)
  \/ \E u \in Tasks : TaskGetMealsHit(u)
  \/ \E u \in Tasks : TaskGetMealsCorrupt(u)
  \/ \E u \in Tasks : TaskRefetchFail(u)
  \/ \E u \in Tasks : TaskRefetchParsed(u)
  \/ \E u \in Tasks : TaskRefetchNoPlan(u)
  \/ \E u \in Tasks : TaskRefetchFault(u)
  \/ \E u \in Tasks : TaskWriteJson(u)
  \/ \E mode \in Modes : MsgStart(mode)
  \/ MsgCacheHit
  \/ MsgCacheCorrupt
  \/ MsgFetchFail
  \/ MsgFetch

Spec == Init /\ [][Next]_vars

SpecLong == InitLong /\ [][Next]_vars

(* -------------------------- date specification ------------------------- *)
\* The date selection of prefetch and of build_heute_msg on every weekday.
DateTodays == 0..MaxDateToday
\* the days a run started on one of DateTodays can request
DateDays == 0..(MaxDateToday + 4)

\* one program run on any of DateTodays, the cache directory empty
InitDates ==
  /\ today \in DateTodays
  /\ budget = 1
  /\ files = [f \in {RawFileName(UrlArgs(n)) : n \in DateDays}
                    \cup {JsonFileName(UrlArgs(n)) : n \in DateDays} |-> NoFile]
  /\ mainPc = "idle"
  /\ joinIdx = 0
  /\ task = [u \in Tasks |-> NoTask]
  /\ gm = NoGm
  /\ prev = [n \in DateDays |-> None]
  /\ ex = NoEx

\* prefetch up to the end of its match: the vector days is filled, nothing
\* is spawned yet
PushDays ==
  /\ NoProcess
  /\ budget > 0
  /\ task[1].pc = "unused"
  /\ LET days == PrefetchDays(today) IN
       task' = [u \in Tasks |->
                  IF u <= Len(days) THEN [NoTask EXCEPT !.pc = "pushed", !.day = days[u]]
                  ELSE NoTask]
  /\ UNCHANGED <<ex, today, files, budget, mainPc, joinIdx, gm, prev>>

NextDates ==
  \/ PushDays
  \/ \E mode \in Modes : MsgStart(mode)

SpecDates == InitDates /\ [][NextDates]_vars

(* ----------------------- extraction specification ---------------------- *)
\* The loop of parse_data_from_html over the direct children of the
\* container, for every container of up to MaxChildren children.
InitExtract ==
  /\ today = 4
  /\ budget = 0
  /\ InitCache
  /\ ex \in {[NoEx EXCEPT !.ch = c, !.pc = "child", !.i = 1] : c \in Containers}

ExAt(where) == ex.pc = where /\ ex.i <= Len(ex.ch)

IsTitle(e) == "title-prim" \in e.classes

NoCrawl == <<today, files, budget, mainPc, joinIdx, task, gm, prev>>

\* for child in container.select(":scope > *"): a child without title-prim
ExChildOther ==
  /\ ExAt("child")
  /\ ~IsTitle(ex.ch[ex.i])
  /\ ex' = [ex EXCEPT !.i = ex.i + 1]
  /\ UNCHANGED NoCrawl

\* a title-prim child: next_sibling = child.next_sibling_element().unwrap()
ExChildTitle ==
  /\ ExAt("child")
  /\ IsTitle(ex.ch[ex.i])
  /\ ex' = IF NextSiblingElement(ex.ch, ex.i) = 0
            THEN [ex EXCEPT !.pc = "panicked"]
            ELSE [ex EXCEPT !.pc = "skip", !.j = NextSiblingElement(ex.ch, ex.i)]
  /\ UNCHANGED NoCrawl

\* while !(accordion && u-block): next_sibling.next_sibling_element().unwrap()
ExSkip ==
  /\ ExAt("skip")
  /\ ~IsBlock(ex.ch[ex.j])
  /\ ex' = IF NextSiblingElement(ex.ch, ex.j) = 0
            THEN [ex EXCEPT !.pc = "panicked"]
            ELSE [ex EXCEPT !.j = NextSiblingElement(ex.ch, ex.j)]
  /\ UNCHANGED NoCrawl

\* the SingleMeal values of the direct children of a block, in order
MealsIn(block) == [k \in 1..Len(block.children) |-> SingleMeal(block.children[k])]

\* the loop over the dishes of next_sibling; the group is pushed
ExDishes ==
  /\ ExAt("skip")
  /\ IsBlock(ex.ch[ex.j])
  /\ \A k \in 1..Len(ex.ch[ex.j].children) : DishOk(ex.ch[ex.j].children[k])
  /\ ex' = [ex EXCEPT !.pc = "child", !.i = ex.i + 1,
                      !.groups = Append(ex.groups,
                                        [meal_type |-> ex.ch[ex.i].text,
                                         sub_meals |-> MealsIn(ex.ch[ex.j])]),
                      !.blocks = Append(ex.blocks, ex.j)]
  /\ UNCHANGED NoCrawl

\* a dish without name or price: .next().unwrap() panics
ExDishFault ==
  /\ ExAt("skip")
  /\ IsBlock(ex.ch[ex.j])
  /\ \E k \in 1..Len(ex.ch[ex.j].children) : ~DishOk(ex.ch[ex.j].children[k])
  /\ ex' = [ex EXCEPT !.pc = "panicked"]
  /\ UNCHANGED NoCrawl

\* the loop over the children is through: day_meals is returned
ExReturn ==
  /\ ex.pc = "child"
  /\ ex.i > Len(ex.ch)
  /\ ex' = [ex EXCEPT !.pc = "returned"]
  /\ UNCHANGED NoCrawl

NextExtract ==
  \/ ExChildOther
  \/ ExChildTitle
  \/ ExSkip
  \/ ExDishes
  \/ ExDishFault
  \/ ExReturn

SpecExtract == InitExtract /\ [][NextExtract]_vars

\* the loop is a sequential program: it keeps running until it ends
SpecExtractFair == SpecExtract /\ WF_vars(NextExtract)

\* the loop, step by step, ends as the operators GroupOk and GroupsFrom
\* used by parse_data_from_html say
ExtractAgrees ==
  /\ ex.pc = "returned" =>
       /\ \A i \in TitleIdx(ex.ch) : GroupOk(ex.ch, i)
       /\ ex.groups = GroupsFrom(ex.ch, 1)
  /\ ex.pc = "panicked" => \E i \in TitleIdx(ex.ch) : ~GroupOk(ex.ch, i)

(* ------------------------------- claims -------------------------------- *)
RawOf(n) == files[RawFileName(UrlArgs(n))]
JsonOf(n) == files[JsonFileName(UrlArgs(n))]

\* the file holds a page / a JSON text
IsHtml(f) == f # NoFile /\ f # EmptyFile
IsJson(f) == f # NoFile /\ f # EmptyFile

\* extraction of a page for the key of day n
Extracted(page, n) == parse_data_from_html(page, build_req_date_string(n))

\* the .json file that extraction of the page yields, if it yields one
StructuredOf(page, n) ==
  IF Extracted(page, n).kind = "ok"
  THEN JsonFile(ToJson(Extracted(page, n).day_meals))
  ELSE NoFile

\* the pair stored for day n is a raw page together with its extraction
PairConsistent(n) ==
  /\ IsHtml(RawOf(n))
  /\ Extracted(RawOf(n).html, n).kind = "ok"
  /\ JsonOf(n) = StructuredOf(RawOf(n).html, n)

Failures == {"FetchError", "NoMenuPublished", "ExtractionFault"}

\* C1: when a prefetch task found the raw snapshot of its key missing or
\* different from the (extractable) page it fetched, it ends with that page
\* stored as the raw snapshot and with the extraction of that same page
\* stored as the structured record.
C1_ReconcileOnChange ==
  \A u \in Tasks :
    (/\ task[u].pc = "done"
     /\ task[u].saved
     /\ Extracted(task[u].html, task[u].day).kind = "ok") =>
      /\ RawOf(task[u].day) = HtmlFile(task[u].html)
      /\ JsonOf(task[u].day) = StructuredOf(task[u].html, task[u].day)

\* no task is between the first and the last write of save_cache_to_file
\* for day n
NoWriteInProgress(n) ==
  \A u \in Tasks :
    task[u].day = n => task[u].pc \notin {"writeRaw", "getMeals", "writeJson"}

\* C2: whenever no write for a key is in progress, a stored structured
\* record comes with a stored raw snapshot and is exactly the extraction of
\* that snapshot.
C2_CachePairInvariant ==
  \A n \in Days :
    (NoWriteInProgress(n) /\ JsonOf(n) # NoFile) => PairConsistent(n)

\* C3: in every state, also between the steps of save_cache_to_file, a
\* reader that finds a raw snapshot finds the structured record extracted
\* from it, and a reader that finds a structured record finds its raw
\* snapshot.
C3_AtomicPairWrite ==
  \A n \in Days :
    /\ IsHtml(RawOf(n)) => JsonOf(n) = StructuredOf(RawOf(n).html, n)
    /\ JsonOf(n) # NoFile => IsHtml(RawOf(n))

\* C4: a task that failed (fetch error, no plan published, extraction
\* fault) never stops another task of the run, and the run is not aborted.
C4_FailureIsolation ==
  \A u \in Tasks :
    task[u].outcome \in Failures =>
      /\ \A v \in Tasks \ {u} : task[v].pc # "killed"
      /\ mainPc \notin {"aborted", "exited"}

\* C5: prefetch has returned only if no task it spawned is still running.
C5_JoinBarrier ==
  mainPc = "returned" => \A u \in Tasks : ~Live(u)

\* prefetch has returned after both tasks of a Friday ran to their end
C5_Witness ==
  /\ mainPc = "returned"
  /\ task[1].pc = "done"
  /\ task[2].pc = "done"

\* the task's reconcile is a failed one: it ended in a failure, or its
\* fetch ended in a non-success status (a fetch error), or the page it
\* fetched shows another date (no plan published) or lacks a landmark
\* (extraction fault)
ReconcileFails(u) ==
  \/ task[u].outcome \in Failures
  \/ /\ task[u].html # None
     /\ \/ task[u].html.status # 200
        \/ Extracted(task[u].html, task[u].day).kind # "ok"

\* C6: a failed reconcile of a key for which a raw snapshot and a
\* structured record were stored leaves both files as they were.
C6_FailedReconcilePreserves ==
  \A u \in Tasks :
    (ReconcileFails(u) /\ IsHtml(task[u].raw0) /\ IsJson(task[u].json0)) =>
      /\ RawOf(task[u].day) = task[u].raw0
      /\ JsonOf(task[u].day) = task[u].json0

\* C7: a response with a non-success status makes the operation fail with
\* a fetch error; its body is not used and no file of the key is touched.
C7_FetchFailureNeverCached ==
  /\ \A u \in Tasks :
       (task[u].html # None /\ task[u].html.status # 200) =>
         /\ task[u].outcome = "FetchError"
         /\ RawOf(task[u].day) = task[u].raw0
         /\ JsonOf(task[u].day) = task[u].json0
  /\ \A n \in Days : IsHtml(RawOf(n)) => RawOf(n).html.status = 200

\* C8: when a task stores a page and the next task of the same key fetches
\* the identical page, the two perform one extraction in total, and the
\* second performs none and writes nothing.
C8_ReconcileIdempotent ==
  \A u \in Tasks :
    (/\ task[u].pc = "done"
     /\ task[u].last # None
     /\ task[u].last.saved
     /\ task[u].last.html = task[u].html) =>
      /\ task[u].last.extr + task[u].extr = 1
      /\ task[u].extr = 0
      /\ ~task[u].saved
      /\ RawOf(task[u].day) = task[u].raw0
      /\ JsonOf(task[u].day) = task[u].json0

\* C9: a message run that missed the cache and got its menu has stored
\* the fetched page and the structured record under the key.
C9_MissPopulatesCache ==
  (gm.pc = "returned" /\ gm.miss) =>
    /\ RawOf(gm.day) = HtmlFile(gm.page)
    /\ JsonOf(gm.day) = JsonFile(ToJson(gm.result))

\* the page shows another date than the one requested for day n
DateSubstituted(page, n) == page # None /\ Extracted(page, n).kind = "exit"

\* C10: after a page that shows another date than the requested one was
\* fetched, no menu is returned, no structured record is written for the
\* key, and the caller stops.
C10_DateSubstitutionDefence ==
  /\ \A u \in Tasks :
       DateSubstituted(task[u].html, task[u].day) =>
         /\ task[u].pc \notin {"writeJson", "done"}
         /\ JsonOf(task[u].day) = task[u].json0
  /\ DateSubstituted(gm.page, gm.day) => (gm.pc = "exited" /\ gm.result = None)

\* the vector days of prefetch, as a sequence
PushedDays ==
  [u \in 1..Cardinality({v \in Tasks : task[v].pc = "pushed"}) |-> task[u].day]

\* the dates the three modes resolve to
ResolvedDates(t) == {RequestedDate(t, mode) : mode \in Modes}

\* C11: on every weekday the dates prefetch pushes are pairwise different
\* and are, as a set, the dates that modes 0, 1, 2 resolve to; there are 3
\* of them Monday to Thursday (Thursday: today, +1, +4), 2 on Friday, 1 on
\* Saturday and 2 on Sunday.
C11_PrefetchCoversModes ==
  task[1].pc = "pushed" =>
    /\ \A u, v \in 1..Len(PushedDays) : u # v => PushedDays[u] # PushedDays[v]
    /\ {PushedDays[u] : u \in 1..Len(PushedDays)} = ResolvedDates(today)
    /\ Len(PushedDays) = CASE Weekday(today) \in 0..3 -> 3
                            [] Weekday(today) = 4 -> 2
                            [] Weekday(today) = 5 -> 1
                            [] OTHER -> 2
    /\ Weekday(today) = 3 => PushedDays = <<today, today + 1, today + 4>>

\* on a Thursday prefetch has pushed today, Friday and Monday
C11_Witness ==
  /\ task[1].pc = "pushed"
  /\ Weekday(today) = 3
  /\ task[3].day = today + 4

\* the first Monday after day n
NextMonday(n) == CHOOSE d \in (n + 1)..(n + 7) : Weekday(d) = 0

\* C12: the resolved date is today + mode when that is Monday to Friday and
\* the first Monday after it otherwise; it is never a Saturday or Sunday and
\* never earlier than today + mode; the shift is 2 from a Saturday, 1 from a
\* Sunday and 0 otherwise.
C12_WeekendResolution ==
  gm.pc = "open" =>
    LET asked == today + gm.mode IN
      /\ gm.day = IF Weekday(asked) \in 0..4 THEN asked ELSE NextMonday(asked)
      /\ Weekday(gm.day) \notin {5, 6}
      /\ gm.day >= asked
      /\ gm.raised = gm.day - asked
      /\ gm.raised = CASE Weekday(asked) = 5 -> 2
                        [] Weekday(asked) = 6 -> 1
                        [] OTHER -> 0

\* "morgen" asked on a Friday is resolved to the Monday, raised by 2
C12_Witness ==
  /\ gm.pc = "open"
  /\ Weekday(today) = 4
  /\ gm.mode = 1
  /\ gm.raised = 2
  /\ gm.day = today + 3

\* C13: every MealGroup of a returned DayMeals has at least one meal; a
\* title whose dish block holds no dish ends the extraction in a fault
\* rather than in a group without meals.
C13_GroupsNonEmpty ==
  ex.pc = "returned" =>
    \A g \in 1..Len(ex.groups) : Len(ex.groups[g].sub_meals) >= 1

\* p is the line without its leading and trailing blanks
IsTrimOf(p, line) ==
  /\ \E a \in 0..Len(line) :
       /\ a + Len(p) <= Len(line)
       /\ SubSeq(line, a + 1, a + Len(p)) = p
       /\ \A x \in 1..Len(line) : (x <= a \/ x > a + Len(p)) => line[x] = " "
  /\ p # <<>> => (p[1] # " " /\ p[Len(p)] # " ")

\* the element the k-th group belongs to: the k-th child with title-prim
KthTitle(ch, k) ==
  CHOOSE i \in 1..Len(ch) :
    /\ "title-prim" \in ch[i].classes
    /\ Cardinality({t \in 1..(i - 1) : "title-prim" \in ch[t].classes}) = k - 1

\* b is the first sibling after child i that has both marker classes
FirstBlockAfter(ch, i, b) ==
  /\ b \in (i + 1)..Len(ch)
  /\ "accordion" \in ch[b].classes /\ "u-block" \in ch[b].classes
  /\ \A x \in (i + 1)..(b - 1) :
       ~("accordion" \in ch[x].classes /\ "u-block" \in ch[x].classes)

\* C15: a returned extraction has exactly one MealGroup per direct child
\* with the primary-title class, in document order and labelled with the
\* title's content; the meals of a group are the direct children of the
\* first sibling after the title that has both block classes, one
\* SingleMeal per child in order, with the name of the dish, its extras in
\* the order met and the trimmed last line of its price paragraph.
C15_GroupExtraction ==
  ex.pc = "returned" =>
    /\ Len(ex.groups) =
         Cardinality({i \in 1..Len(ex.ch) : "title-prim" \in ex.ch[i].classes})
    /\ \A k \in 1..Len(ex.groups) :
         LET i == KthTitle(ex.ch, k)
             g == ex.groups[k] IN
           /\ g.meal_type = ex.ch[i].text
           /\ \E b \in 1..Len(ex.ch) :
                /\ FirstBlockAfter(ex.ch, i, b)
                /\ Len(g.sub_meals) = Len(ex.ch[b].children)
                /\ \A d \in 1..Len(g.sub_meals) :
                     LET dish == ex.ch[b].children[d]
                         lines == dish.p[1] IN
                       /\ g.sub_meals[d].name = dish.h4[1]
                       /\ g.sub_meals[d].additional_ingredients = dish.li
                       /\ IsTrimOf(g.sub_meals[d].price, lines[Len(lines)])

\* two titles, each with its block of two dishes, gave two groups; the
\* price of the first dish lost its blanks and its label line
C15_Witness ==
  /\ ex.pc = "returned"
  /\ ex.ch = <<Title("Fleischgericht"), Block(<<DishA, DishB>>),
               Title("Veganes Gericht"), Block(<<DishA, DishB>>)>>
  /\ Len(ex.groups) = 2
  /\ ex.groups[2].meal_type = "Veganes Gericht"
  /\ ex.groups[1].sub_meals[1].price = <<"3,50">>
  /\ ex.groups[1].sub_meals[1].additional_ingredients = <<"Pommes", "Salat">>

\* the title the search is running for has no block among the siblings
\* after it
ChainWithoutBlock(ch, i) == ~\E b \in 1..Len(ch) : FirstBlockAfter(ch, i, b)

\* the search has stopped or is on a sibling after the title with no block
\* passed over; every pushed group was built from the first block after
\* its title; no DayMeals is returned when a title has no block after it
C16_SearchSafe ==
  /\ ex.pc = "skip" =>
       /\ ex.i < ex.j /\ ex.j <= Len(ex.ch)
       /\ \A x \in (ex.i + 1)..(ex.j - 1) : ~FirstBlockAfter(ex.ch, ex.i, x)
  /\ Len(ex.blocks) = Len(ex.groups)
  /\ \A k \in 1..Len(ex.groups) :
       FirstBlockAfter(ex.ch, KthTitle(ex.ch, k), ex.blocks[k])
  /\ ex.pc = "returned" =>
       \A i \in 1..Len(ex.ch) :
         "title-prim" \in ex.ch[i].classes => ~ChainWithoutBlock(ex.ch, i)

C19_NoSharedDishBlock ==
  ex.pc = "returned" =>
    \A k, l \in 1..Len(ex.blocks) : k # l => ex.blocks[k] # ex.blocks[l]

\* C18: in every state, a structured record stored under the key of a day
\* carries the date of that day: the date shown by the page it was
\* extracted from, reformatted, is the date of the key, so no record of a
\* substituted date is stored under the requested date's key.
C18_RecordMatchesKey ==
  \A n \in Days :
    IsJson(JsonOf(n)) =>
      ReceivedDateFormatted(JsonOf(n).json[1]) = build_req_date_string(n)

\* a task that first fetched a page showing another date has stored a
\* structured record for its key
C18_Witness ==
  \E u \in Tasks :
    /\ task[u].pc = "done"
    /\ task[u].saved
    /\ DateSubstituted(task[u].html, task[u].day)
    /\ IsJson(JsonOf(task[u].day))

\* the days of the vector days of prefetch, as a set
PrefetchDaySet(t) == {PrefetchDays(t)[u] : u \in 1..Len(PrefetchDays(t))}

\* C17: a message run started right after a prefetch run in which every
\* task succeeded, on the same day, resolves for every mode to a key that
\* prefetch handled and that holds a structured record, returns exactly
\* that record, fetches nothing and leaves the cache as it was.
C17_PrefetchWarmsModes ==
  (gm.warm /\ gm.pc # "idle") =>
    /\ gm.day \in PrefetchDaySet(today)
    /\ IsJson(gm.json0)
    /\ gm.pc \in {"open", "returned"}
    /\ ~gm.miss
    /\ gm.pc = "returned" => gm.result = FromJson(gm.json0.json)
    /\ RawOf(gm.day) = gm.raw0
    /\ JsonOf(gm.day) = gm.json0

\* the two file names of the key of a spawned task
NamesOf(u) == {RawFileName(Args(u)), JsonFileName(Args(u))}

Spawned == {u \in Tasks : task[u].pc # "unused"}

\* the files of the task's key are what the task alone, run to its own
\* end with the responses it got, leaves: nothing changed when it did not
\* save, the fetched page and the record when it saved, the fetched page
\* and the old .json file when it failed inside get_meals; a task stopped
\* by the end of another one has no end of its own
LeftByOwnRun(u) ==
  CASE task[u].pc = "done" /\ task[u].saved ->
         /\ RawOf(task[u].day) = HtmlFile(task[u].html)
         /\ JsonOf(task[u].day) = JsonFile(ToJson(task[u].meals))
    [] task[u].pc \in {"panicked", "exited"} /\ task[u].saved ->
         /\ RawOf(task[u].day) = HtmlFile(task[u].html)
         /\ JsonOf(task[u].day) = task[u].json0
    [] task[u].pc \in {"done", "panicked", "exited"} /\ ~task[u].saved ->
         /\ RawOf(task[u].day) = task[u].raw0
         /\ JsonOf(task[u].day) = task[u].json0
    [] OTHER -> FALSE

\* C14: the tasks of a prefetch run have pairwise different keys, and the
\* raw and .json file names of different keys differ, so no file belongs
\* to two tasks of the run; and when the run is over the files of every
\* key are what its task alone leaves, whatever the interleaving was.
C14_DisjointUnits ==
  /\ \A u, v \in Spawned :
       u # v => (Args(u) # Args(v) /\ NamesOf(u) \cap NamesOf(v) = {})
  /\ \A u \in Spawned : RawFileName(Args(u)) # JsonFileName(Args(u))
  /\ (mainPc \in {"returned", "aborted", "exited"}) =>
       \A u \in Spawned : LeftByOwnRun(u)

====
